---- MODULE Spec2Model ----
(***************************************************************************)
(* A model of maubot/dice (src/dice.py): the dice-token expander with its  *)
(* roll generator (randomize), the AST calculator (Calc), the roll command *)
(* handler (DiceBot.roll) and the configuration reload                     *)
(* (DiceBot.on_external_config_update).                                    *)
(*                                                                         *)
(* Value domain.  Python's int and None.  Expressions whose evaluation     *)
(* yields a float (true division, a negative exponent, math functions, the *)
(* named constants) are not in the bounded input sets below; the operator  *)
(* tables still list them, and TLC stops with an error if one is applied.  *)
(*                                                                         *)
(* Text.  A pattern is held as what ast.parse makes of it (a module body   *)
(* whose leaves may still be dice tokens) plus the number of further       *)
(* characters it holds (blanks, a comment); its length and the length of   *)
(* the expanded statement are computed from that.  Strings the code builds *)
(* (str(result), the reply) are sequences of characters.                   *)
(***************************************************************************)
EXTENDS Integers, Sequences, FiniteSets, TLC

VARIABLES config, version, running, inv, replies

vars == <<config, version, running, inv, replies>>

(***************************************************************************)
(* Bounds of the model.                                                    *)
(***************************************************************************)
\* largest dice count of a token in the roll-generator specifications
MaxNumber == 3
\* largest plain side count of a token in the roll-generator specifications
MaxSize == 3
\* largest digit of a {low,high} range bound (the grammar allows -9..9)
MaxDigit == 3
\* a normal draw lands within this distance of the truncated mean
GaussSpread == 2
\* configuration reloads in one behaviour
MaxReloads == 2

(***************************************************************************)
(* Program constants.                                                      *)
(***************************************************************************)
\* src/dice.py:50 has 10^15, beyond TLC's 32-bit integers; 10^9 here.  Every
\* value the bounded inputs compute is compared with it the same way.
_NUM_MAX == 1000000000
_NUM_MIN == -_NUM_MAX
_ARG_COUNT_LIMIT == 5
\* len(pattern) > 64
PATTERN_MAX == 64

(***************************************************************************)
(* Strings: str(int), str(None), len.                                      *)
(***************************************************************************)
Digit(d) == CASE d = 0 -> "0" [] d = 1 -> "1" [] d = 2 -> "2" [] d = 3 -> "3"
              [] d = 4 -> "4" [] d = 5 -> "5" [] d = 6 -> "6" [] d = 7 -> "7"
              [] d = 8 -> "8" [] d = 9 -> "9"

RECURSIVE Dec(_)
Dec(n) == IF n < 10 THEN <<Digit(n)>> ELSE Dec(n \div 10) \o <<Digit(n % 10)>>

\* str(n) of an int
StrInt(n) == IF n < 0 THEN <<"-">> \o Dec(-n) ELSE Dec(n)

NoneText == <<"N", "o", "n", "e">>

BadPattern == <<"B", "a", "d", " ", "p", "a", "t", "t", "e", "r", "n", " ", "3", ":", "<">>

(***************************************************************************)
(* Values and outcomes of an evaluation.                                   *)
(***************************************************************************)
IntV(n) == [k |-> "int", n |-> n]
NoneV == [k |-> "none", n |-> 0]

\* str(value)
Str(v) == IF v.k = "none" THEN NoneText ELSE StrInt(v.n)

\* a returned value, with the operators and functions applied on the way
Ok(v, ev) == [err |-> "", val |-> v, applied |-> ev]
\* a raised exception of type e
Raise(e, ev) == [err |-> e, val |-> NoneV, applied |-> ev]

\* op applied to the values args
OpEvent(op, args) ==
    [kind |-> "op", name |-> op, args |-> args, npos |-> Len(args), nkw |-> 0]
\* f applied; args are the evaluated positional values, npos and nkw the numbers
\* of positional and keyword arguments of the call node
FuncEvent(f, args, npos, nkw) ==
    [kind |-> "func", name |-> f, args |-> args, npos |-> npos, nkw |-> nkw]

(***************************************************************************)
(* Syntax tree nodes (what ast.parse returns).                             *)
(***************************************************************************)
Num(n) == [type |-> "Num", n |-> n]
StrLit(s) == [type |-> "Str", s |-> s]
Name(id) == [type |-> "Name", id |-> id]
BinOp(op, l, r) == [type |-> "BinOp", op |-> op, left |-> l, right |-> r]
\* bare: the operand is a power written without parentheses, as in -3**2
UnaryOp(op, x) == [type |-> "UnaryOp", op |-> op, operand |-> x, bare |-> FALSE]
BareUnaryOp(op, x) == [type |-> "UnaryOp", op |-> op, operand |-> x, bare |-> TRUE]
Call(f, args, kws) == [type |-> "Call", func |-> f, args |-> args, keywords |-> kws]
Expr(v) == [type |-> "Expr", value |-> v]
Assign(t, v) == [type |-> "Assign", targets |-> <<t>>, value |-> v]
\* a dice token still in the pattern's text
\* number: group 1; counted: whether group 1 has digits; size: group 2 or groups 4, 5
Dice(counted, number, size) ==
    [type |-> "Dice", counted |-> counted, number |-> number, size |-> size]
\* a plain side count and a {low,high} range, as randomize's choices_range
IntSize(n) == [is_int |-> TRUE, lo |-> 1, hi |-> n]
RangeSize(lo, hi) == [is_int |-> FALSE, lo |-> lo, hi |-> hi]

(***************************************************************************)
(* Integer arithmetic of the operators in _OP_MAP.                         *)
(***************************************************************************)
Abs(x) == IF x < 0 THEN -x ELSE x

\* Python's floor division and modulo, b # 0
FloorDivInt(a, b) == IF b > 0 THEN a \div b ELSE (-a) \div (-b)
ModInt(a, b) == a - b * FloorDivInt(a, b)

RECURSIVE PowInt(_, _)
PowInt(a, n) == IF n = 0 THEN 1 ELSE a * PowInt(a, n - 1)

\* bitwise and of two's-complement integers of unbounded width
RECURSIVE AndInt(_, _)
AndInt(a, b) ==
    IF a = 0 \/ b = 0 THEN 0
    ELSE IF a = -1 THEN b
    ELSE IF b = -1 THEN a
    ELSE (a % 2) * (b % 2) + 2 * AndInt(a \div 2, b \div 2)

\* a >> n, n >= 0
RECURSIVE ShrInt(_, _)
ShrInt(a, n) == IF n = 0 \/ a = 0 \/ a = -1 THEN a ELSE ShrInt(a \div 2, n - 1)

InvInt(a) == -a - 1
OrInt(a, b) == InvInt(AndInt(InvInt(a), InvInt(b)))
XorInt(a, b) == OrInt(a, b) - AndInt(a, b)

(***************************************************************************)
(* _OP_MAP, _OP_LIMITS, _FUNC_MAP, _FUNC_LIMITS.                           *)
(***************************************************************************)
BinOps == {"Add", "Sub", "Mult", "Div", "Pow", "FloorDiv", "Mod",
           "BitAnd", "BitOr", "BitXor", "RShift", "LShift"}
UnaryOps == {"Invert", "USub", "UAdd"}

\* the keys of _OP_MAP
_OP_MAP == BinOps \cup UnaryOps

_OP_LIMITS ==
    [op \in {"Pow", "LShift", "Mult", "Div", "FloorDiv", "Mod"} |->
        IF op \in {"Pow", "LShift"} THEN <<1000, 1000>> ELSE <<_NUM_MAX, _NUM_MAX>>]

_ALLOWED_FUNCS ==
    {"ceil", "copysign", "fabs", "factorial", "gcd", "remainder", "trunc",
     "exp", "log", "log1p", "log2", "log10", "sqrt",
     "acos", "asin", "atan", "atan2", "cos", "hypot", "sin", "tan",
     "degrees", "radians",
     "acosh", "asinh", "atanh", "cosh", "sinh", "tanh",
     "erf", "erfc", "gamma", "lgamma"}

\* the keys of _FUNC_MAP
_FUNC_MAP == _ALLOWED_FUNCS \cup {"round", "hash", "max", "min", "float", "int", "abs"}

_FUNC_LIMITS ==
    [f \in {"factorial", "exp", "sqrt"} |->
        CASE f = "factorial" -> 1000 [] f = "exp" -> 709 [] f = "sqrt" -> _NUM_MAX]

\* op(left, right) of a binary operator in _OP_MAP
ApplyBinOp(op, l, r) ==
    IF l.k = "none" \/ r.k = "none" THEN [err |-> "TypeError", val |-> NoneV]
    ELSE LET a == l.n
             b == r.n
             ok(n) == [err |-> "", val |-> IntV(n)]
             fail(e) == [err |-> e, val |-> NoneV]
         IN CASE op = "Add" -> ok(a + b)
              [] op = "Sub" -> ok(a - b)
              [] op = "Mult" -> ok(a * b)
              [] op = "Div" /\ b = 0 -> fail("ZeroDivisionError")
              [] op = "FloorDiv" -> IF b = 0 THEN fail("ZeroDivisionError")
                                    ELSE ok(FloorDivInt(a, b))
              [] op = "Mod" -> IF b = 0 THEN fail("ZeroDivisionError")
                               ELSE ok(ModInt(a, b))
              [] op = "Pow" /\ b >= 0 -> ok(PowInt(a, b))
              [] op = "Pow" /\ b < 0 /\ a = 0 -> fail("ZeroDivisionError")
              [] op = "BitAnd" -> ok(AndInt(a, b))
              [] op = "BitOr" -> ok(OrInt(a, b))
              [] op = "BitXor" -> ok(XorInt(a, b))
              [] op = "LShift" -> IF b < 0 THEN fail("ValueError")
                                  ELSE ok(a * PowInt(2, b))
              [] op = "RShift" -> IF b < 0 THEN fail("ValueError")
                                  ELSE ok(ShrInt(a, b))

\* op(operand) of a unary operator in _OP_MAP
ApplyUnaryOp(op, x) ==
    IF x.k = "none" THEN [err |-> "TypeError", val |-> NoneV]
    ELSE CASE op = "Invert" -> [err |-> "", val |-> IntV(InvInt(x.n))]
           [] op = "USub" -> [err |-> "", val |-> IntV(-x.n)]
           [] op = "UAdd" -> [err |-> "", val |-> IntV(x.n)]

RECURSIVE Fact(_)
Fact(n) == IF n <= 1 THEN 1 ELSE n * Fact(n - 1)

RECURSIVE Gcd(_, _)
Gcd(a, b) == IF b = 0 THEN Abs(a) ELSE Gcd(b, ModInt(a, b))

RECURSIVE GcdOf(_)
GcdOf(s) == IF Len(s) = 0 THEN 0 ELSE Gcd(s[1], GcdOf(Tail(s)))

RECURSIVE MaxOf(_)
MaxOf(s) == IF Len(s) = 1 THEN s[1]
            ELSE LET m == MaxOf(Tail(s)) IN IF m > s[1] THEN m ELSE s[1]

RECURSIVE MinOf(_)
MinOf(s) == IF Len(s) = 1 THEN s[1]
            ELSE LET m == MinOf(Tail(s)) IN IF m < s[1] THEN m ELSE s[1]

\* func(*args, **kwargs) of the integer functions of _FUNC_MAP; args are values
ApplyFunc(f, args, nkw) ==
    LET ok(n) == [err |-> "", val |-> IntV(n)]
        fail(e) == [err |-> e, val |-> NoneV]
        ints == [i \in 1..Len(args) |-> args[i].n]
    IN IF nkw > 0 \/ \E i \in 1..Len(args) : args[i].k = "none"
       THEN fail("TypeError")
       ELSE CASE f = "abs" -> IF Len(args) = 1 THEN ok(Abs(ints[1])) ELSE fail("TypeError")
              [] f = "int" -> IF Len(args) = 0 THEN ok(0)
                              ELSE IF Len(args) = 1 THEN ok(ints[1]) ELSE fail("TypeError")
              [] f = "factorial" -> IF Len(args) # 1 THEN fail("TypeError")
                                    ELSE IF ints[1] < 0 THEN fail("ValueError")
                                    ELSE ok(Fact(ints[1]))
              [] f = "gcd" -> ok(GcdOf(ints))
              [] f = "max" -> IF Len(args) < 2 THEN fail("TypeError") ELSE ok(MaxOf(ints))
              [] f = "min" -> IF Len(args) < 2 THEN fail("TypeError") ELSE ok(MinOf(ints))

\* ord(s) of a string literal
Ord(s) == CASE s = "a" -> [err |-> "", val |-> IntV(97)]
            [] s = "ab" -> [err |-> "TypeError", val |-> NoneV]

(***************************************************************************)
(* class Calc(ast.NodeVisitor).                                            *)
(***************************************************************************)
\* value > limit, which raises TypeError on None
OverLimit(v, limit) == v.k # "none" /\ v.n > limit

RECURSIVE visit(_)
RECURSIVE visit_all(_, _, _)

\* [self.visit(x) for x in nodes], left to right, stopping at the first exception:
\* the values so far are vals, the operators and functions applied so far ev
visit_all(nodes, vals, ev) ==
    IF nodes = <<>> THEN [err |-> "", vals |-> vals, applied |-> ev]
    ELSE LET r == visit(Head(nodes))
         IN IF r.err # "" THEN [err |-> r.err, vals |-> vals, applied |-> ev \o r.applied]
            ELSE visit_all(Tail(nodes), Append(vals, r.val), ev \o r.applied)

visit_BinOp(node) ==
    LET both == visit_all(<<node.left, node.right>>, <<>>, <<>>)
        left == both.vals[1]
        right == both.vals[2]
        op_type == node.op
        ev == both.applied
    IN IF both.err # "" THEN Raise(both.err, ev)
       ELSE IF op_type \in DOMAIN _OP_LIMITS /\ left.k = "none"
       THEN Raise("TypeError", ev)
       ELSE IF op_type \in DOMAIN _OP_LIMITS /\ OverLimit(left, _OP_LIMITS[op_type][1])
       THEN Raise("ValueError", ev)
       ELSE IF op_type \in DOMAIN _OP_LIMITS /\ right.k = "none"
       THEN Raise("TypeError", ev)
       ELSE IF op_type \in DOMAIN _OP_LIMITS /\ OverLimit(right, _OP_LIMITS[op_type][2])
       THEN Raise("ValueError", ev)
       ELSE IF op_type \notin _OP_MAP
       THEN Raise("SyntaxError", ev)
       ELSE LET r == ApplyBinOp(op_type, left, right)
                ev2 == Append(ev, OpEvent(op_type, <<left, right>>))
            IN IF r.err # "" THEN Raise(r.err, ev2) ELSE Ok(r.val, ev2)

visit_UnaryOp(node) ==
    LET x == visit(node.operand)
    IN IF x.err # "" THEN x
       ELSE IF node.op \notin _OP_MAP THEN Raise("SyntaxError", x.applied)
       ELSE LET r == ApplyUnaryOp(node.op, x.val)
                ev2 == Append(x.applied, OpEvent(node.op, <<x.val>>))
            IN IF r.err # "" THEN Raise(r.err, ev2) ELSE Ok(r.val, ev2)

visit_Num(node) ==
    IF node.n > _NUM_MAX \/ node.n < _NUM_MIN
    THEN Raise("ValueError", <<>>)
    ELSE Ok(IntV(node.n), <<>>)

\* pi, tau and e are floats; any other name falls off the end and returns None
visit_Name(node) ==
    IF node.id \in {"pi", "tau", "e"}
    THEN Ok([k |-> "float", n |-> 0], <<>>)
    ELSE Ok(NoneV, <<>>)

\* the two loops over args and kwargs.values(): value > limit, in order
RECURSIVE check_limit(_, _)
check_limit(values, limit) ==
    IF values = <<>> THEN ""
    ELSE IF Head(values).k = "none" THEN "TypeError"
    ELSE IF OverLimit(Head(values), limit) THEN "ValueError"
    ELSE check_limit(Tail(values), limit)

visit_Call(node) ==
    IF node.func.type = "Name"
    THEN LET id == node.func.id
         IN IF id = "ord" /\ Len(node.args) = 1 /\ node.args[1].type = "Str"
            THEN LET r == Ord(node.args[1].s)
                     ev == <<FuncEvent("ord", <<>>, 1, Len(node.keywords))>>
                 IN IF r.err # "" THEN Raise(r.err, ev) ELSE Ok(r.val, ev)
            ELSE IF id \notin _FUNC_MAP THEN Raise("NameError", <<>>)
            ELSE LET args == visit_all(node.args, <<>>, <<>>)
                     kwargs == visit_all(node.keywords, <<>>, args.applied)
                     ev == kwargs.applied
                     over == IF id \in DOMAIN _FUNC_LIMITS
                             THEN check_limit(args.vals \o kwargs.vals, _FUNC_LIMITS[id])
                             ELSE ""
                 IN IF args.err # "" THEN Raise(args.err, args.applied)
                    ELSE IF kwargs.err # "" THEN Raise(kwargs.err, ev)
                    ELSE IF Len(args.vals) + Len(kwargs.vals) > _ARG_COUNT_LIMIT
                    THEN Raise("ValueError", ev)
                    ELSE IF over # "" THEN Raise(over, ev)
                    ELSE LET r == ApplyFunc(id, args.vals, Len(kwargs.vals))
                             ev2 == Append(ev, FuncEvent(id, args.vals, Len(args.vals),
                                                         Len(kwargs.vals)))
                         IN IF r.err # "" THEN Raise(r.err, ev2) ELSE Ok(r.val, ev2)
    ELSE Raise("SyntaxError", <<>>)

visit_Expr(node) == visit(node.value)

\* NodeVisitor.generic_visit: visits the child nodes and returns None
generic_visit(node) ==
    LET children == CASE node.type = "Assign" -> node.targets \o <<node.value>>
                      [] OTHER -> <<>>
        r == visit_all(children, <<>>, <<>>)
    IN IF r.err # "" THEN Raise(r.err, r.applied) ELSE Ok(NoneV, r.applied)

\* NodeVisitor.visit: dispatch on the node's class
visit(node) ==
    CASE node.type = "BinOp" -> visit_BinOp(node)
      [] node.type = "UnaryOp" -> visit_UnaryOp(node)
      [] node.type = "Num" -> visit_Num(node)
      [] node.type = "Name" -> visit_Name(node)
      [] node.type = "Call" -> visit_Call(node)
      [] node.type = "Expr" -> visit_Expr(node)
      [] OTHER -> generic_visit(node)

\* Calc.evaluate on the parse of the expanded pattern: parsed.ok is whether
\* ast.parse accepts the text, parsed.body the statements of the module
evaluate(parsed) ==
    IF ~parsed.ok THEN Raise("SyntaxError", <<>>)
    ELSE IF parsed.body = <<>> THEN Raise("IndexError", <<>>)
    ELSE visit(parsed.body[1])

(***************************************************************************)
(* The text of a pattern.                                                  *)
(***************************************************************************)
\* the characters of the identifiers and string literals the inputs use
Chars(id) ==
    CASE id = "x" -> <<"x">>
      [] id = "a" -> <<"a">>
      [] id = "ab" -> <<"a", "b">>
      [] id = "abs" -> <<"a", "b", "s">>
      [] id = "max" -> <<"m", "a", "x">>
      [] id = "min" -> <<"m", "i", "n">>
      [] id = "int" -> <<"i", "n", "t">>
      [] id = "gcd" -> <<"g", "c", "d">>
      [] id = "ord" -> <<"o", "r", "d">>
      [] id = "foo" -> <<"f", "o", "o">>
      [] id = "factorial" -> <<"f", "a", "c", "t", "o", "r", "i", "a", "l">>

OpSym(op) ==
    CASE op = "Add" -> <<"+">>
      [] op = "Sub" -> <<"-">>
      [] op = "Mult" -> <<"*">>
      [] op = "Div" -> <<"/">>
      [] op = "Pow" -> <<"*", "*">>
      [] op = "FloorDiv" -> <<"/", "/">>
      [] op = "Mod" -> <<"%">>
      [] op = "BitAnd" -> <<"&">>
      [] op = "BitOr" -> <<"|">>
      [] op = "BitXor" -> <<"^">>
      [] op = "RShift" -> <<">", ">">>
      [] op = "LShift" -> <<"<", "<">>
      [] op = "MatMult" -> <<"@">>
      [] op = "Invert" -> <<"~">>
      [] op = "USub" -> <<"-">>
      [] op = "UAdd" -> <<"+">>
      [] op = "Not" -> <<"n", "o", "t", " ">>

\* the i-th keyword of a call
KeywordName(i) == <<"k", Digit(i)>>

\* a dice token: [count]d(sides | {low,high})
DiceText(node) ==
    (IF node.counted THEN StrInt(node.number) ELSE <<>>) \o <<"d">>
    \o (IF node.size.is_int THEN StrInt(node.size.hi)
        ELSE <<"{">> \o StrInt(node.size.lo) \o <<",">> \o StrInt(node.size.hi) \o <<"}">>)

RECURSIVE Text(_)
RECURSIVE Join(_, _, _)

\* the texts of nodes, each after the first preceded by sep; the i-th written as
\* a keyword argument when kw
Join(nodes, sep, kw) ==
    [i \in 1..Len(nodes) |->
        (IF i > 1 THEN sep ELSE <<>>)
        \o (IF kw THEN KeywordName(i) \o <<"=">> ELSE <<>>)
        \o Text(nodes[i])]

RECURSIVE Flat(_)
Flat(ss) == IF ss = <<>> THEN <<>> ELSE Head(ss) \o Flat(Tail(ss))

Paren(t) == <<"(">> \o t \o <<")">>

Text(node) ==
    CASE node.type = "Num" -> StrInt(node.n)
      [] node.type = "Str" -> <<"'">> \o Chars(node.s) \o <<"'">>
      [] node.type = "Name" -> Chars(node.id)
      [] node.type = "Dice" -> DiceText(node)
      [] node.type = "BinOp" ->
            (IF node.left.type = "BinOp"
                \/ (node.left.type = "UnaryOp" /\ node.op = "Pow")
             THEN Paren(Text(node.left)) ELSE Text(node.left))
            \o OpSym(node.op)
            \o (IF node.right.type = "BinOp"
                THEN Paren(Text(node.right)) ELSE Text(node.right))
      [] node.type = "UnaryOp" ->
            OpSym(node.op)
            \o (IF node.operand.type = "BinOp" /\ ~node.bare
                THEN Paren(Text(node.operand)) ELSE Text(node.operand))
      [] node.type = "Call" ->
            (IF node.func.type = "Name" THEN Text(node.func) ELSE Paren(Text(node.func)))
            \o Paren(Flat(Join(node.args, <<",">>, FALSE))
                     \o (IF node.args # <<>> /\ node.keywords # <<>> THEN <<",">> ELSE <<>>)
                     \o Flat(Join(node.keywords, <<",">>, TRUE)))
      [] node.type = "Expr" -> Text(node.value)
      [] node.type = "Assign" -> Text(node.targets[1]) \o <<"=">> \o Text(node.value)

Blanks(n) == [i \in 1..n |-> " "]

\* the pattern's characters: its statements, then p.extra further characters
\* (blanks; for an empty body a comment)
PatternText(p) == Flat(Join(p.body, <<";">>, FALSE)) \o Blanks(p.extra)

(***************************************************************************)
(* pattern_regex.sub(replacer, pattern).                                   *)
(***************************************************************************)
RECURSIVE DiceIn(_)
\* the dice tokens of a node's text, left to right (in the bounded patterns
\* they are operands of operators)
DiceIn(node) ==
    CASE node.type = "Dice" -> <<node>>
      [] node.type = "BinOp" -> DiceIn(node.left) \o DiceIn(node.right)
      [] node.type = "UnaryOp" -> DiceIn(node.operand)
      [] node.type = "Expr" -> DiceIn(node.value)
      [] OTHER -> <<>>

RECURSIVE DiceOf(_)
DiceOf(body) == IF body = <<>> THEN <<>> ELSE DiceIn(Head(body)) \o DiceOf(Tail(body))

\* what ast.parse makes of str(v)
Literal(v) == IF v < 0 THEN UnaryOp("USub", Num(-v)) ELSE Num(v)

RECURSIVE Subst(_, _)
\* the parse of a node's text with its dice tokens replaced by str of rs;
\* a negative number before ** parses as the negation of the power
Subst(node, rs) ==
    CASE node.type = "Dice" -> Literal(rs[1])
      [] node.type = "BinOp" ->
            LET nl == Len(DiceIn(node.left))
                l == Subst(node.left, SubSeq(rs, 1, nl))
                r == Subst(node.right, SubSeq(rs, nl + 1, Len(rs)))
            IN IF node.op = "Pow" /\ node.left.type = "Dice" /\ rs[1] < 0
               THEN BareUnaryOp("USub", BinOp("Pow", Num(-rs[1]), r))
               ELSE BinOp(node.op, l, r)
      [] node.type = "UnaryOp" -> [node EXCEPT !.operand = Subst(node.operand, rs)]
      [] node.type = "Expr" -> Expr(Subst(node.value, rs))
      [] OTHER -> node

RECURSIVE SubstBody(_, _)
SubstBody(body, rs) ==
    IF body = <<>> THEN <<>>
    ELSE LET n == Len(DiceIn(Head(body)))
         IN <<Subst(Head(body), SubSeq(rs, 1, n))>>
            \o SubstBody(Tail(body), SubSeq(rs, n + 1, Len(rs)))

\* the pattern after the substitution
Expanded(p, rs) == [p EXCEPT !.body = SubstBody(p.body, rs)]

(***************************************************************************)
(* randomize(number, size).                                                *)
(***************************************************************************)
\* the checks before the loops: raise, return a value, or go on
randomize_entry(number, size) ==
    LET largest == size.hi
    IN IF ~(size.lo <= size.hi) THEN [out |-> "raise", val |-> 0]
       ELSE IF (size.is_int /\ largest < 0) \/ number < 0 THEN [out |-> "raise", val |-> 0]
       ELSE IF (size.is_int /\ largest = 0) \/ number = 0 THEN [out |-> "return", val |-> 0]
       ELSE IF size.is_int /\ largest = 1 THEN [out |-> "return", val |-> number]
       ELSE [out |-> "loop", val |-> 0]

\* int(x / 2) of an integer x: truncation towards zero
TruncHalf(x) == IF x >= 0 THEN x \div 2 ELSE -((-x) \div 2)

\* int(mean), mean = number * (largest + 1) / 2
TruncMean(number, largest) == TruncHalf(number * (largest + 1))

\* the sign of variance = number * (largest ** 2 - 1) / 12
VarianceSign(number, largest) ==
    LET v == number * (largest * largest - 1)
    IN IF v < 0 THEN -1 ELSE IF v = 0 THEN 0 ELSE 1

\* while _result < number or _result > number * largest
GaussAgain(result, number, largest) == result < number \/ result > number * largest

\* the element of individual_rolls that randomize appends
RollRecord(number, size, individual) ==
    [number |-> number,
     size |-> IF size.is_int THEN StrInt(size.hi)
              ELSE <<"{">> \o StrInt(size.lo) \o <<",", " ">> \o StrInt(size.hi) \o <<"}">>,
     results |-> individual]

(***************************************************************************)
(* The reply of roll.                                                      *)
(***************************************************************************)
RECURSIVE JoinText(_, _)
\* sep.join(texts)
JoinText(texts, sep) ==
    IF texts = <<>> THEN <<>>
    ELSE IF Len(texts) = 1 THEN texts[1]
    ELSE texts[1] \o sep \o JoinText(Tail(texts), sep)

\* f"{number}d{size}: {' '.join(str(result) for result in results)}  "
RollLine(rec) ==
    StrInt(rec.number) \o <<"d">> \o rec.size \o <<":", " ">>
    \o JoinText([i \in 1..Len(rec.results) |-> StrInt(rec.results[i])], <<" ">>)
    \o <<" ", " ">>

\* the text roll sends after a successful evaluation: result is str(result),
\* statement the expanded pattern, recs individual_rolls ([] when None)
Formatted(result, statement, recs, show_statement) ==
    (IF show_statement /\ statement # result
     THEN statement \o <<" ", "=", " ">> \o result ELSE result)
    \o (IF recs # <<>>
        THEN <<"\n", "\n">> \o JoinText([i \in 1..Len(recs) |-> RollLine(recs[i])], <<"\n">>)
        ELSE <<>>)

\* the exception types of roll's except clause
Caught == {"TypeError", "NameError", "ValueError", "SyntaxError", "KeyError",
           "OverflowError", "ZeroDivisionError"}

(***************************************************************************)
(* State.                                                                  *)
(*   config    the fields of DiceBot that the configuration sets           *)
(*   version   how many times the configuration was reloaded               *)
(*   running   the invocation of roll that holds the event loop, if any    *)
(*   inv       per invocation of roll: its argument, its position, locals  *)
(*   replies   the calls of evt.reply, in order                            *)
(***************************************************************************)
Config(rolls, statement, rolls_limit, gauss, max_length, decimals) ==
    [show_rolls |-> rolls, show_statement |-> statement,
     show_rolls_limit |-> rolls_limit, gauss_limit |-> gauss,
     result_max_length |-> max_length, round_decimals |-> decimals]

\* individual_rolls and individual are a list or None: on says which
NoList == [on |-> FALSE, items |-> <<>>]
List(on) == [on |-> on, items |-> <<>>]

\* an invocation roll(evt, pattern) that has not started
\*   calls      the calls of randomize so far: arguments and outcome
\*   number, size, result, individual, left: randomize's number, size, _result,
\*              individual and the iterations its for loop has left
\*   seen       the configurations it has read self.* from
\*   drew       whether it drew a random number
\*   odd        whether the while loop of randomize has run an odd number of times
\*   evaluated  whether it called Calc.evaluate, with applied what that applied
\*              and value what it returned
\*   err        the exception that ended it, if any
Invocation(p) ==
    [pc |-> "new", pattern |-> p, individual_rolls |-> NoList, calls |-> <<>>,
     number |-> 0, size |-> IntSize(0), result |-> 0, individual |-> NoList, left |-> 0,
     seen |-> {}, drew |-> FALSE, odd |-> FALSE, evaluated |-> FALSE, applied |-> <<>>,
     value |-> NoneV, err |-> ""]

Tasks == DOMAIN inv

\* a scheduler that would let any invocation step at any time
CanRun_Preemptive(t) == t \in Tasks

\* roll is a coroutine and awaits nothing before evt.reply: once it runs, nothing
\* else runs on the event loop until it replies or fails
CanRun(t) == running \subseteq {t}

\* on_external_config_update is a plain method: the event loop runs it between
\* coroutine steps
LoopIdle == running = {}

Reply(t, kind, text, result, recs) ==
    [task |-> t, kind |-> kind, text |-> text, result |-> result, recs |-> recs]

\* the invocation l reads self.<field>
Read(l) == [l EXCEPT !.seen = @ \cup {config}]

\* an exception of type e ends the try block of invocation t, now l: the except
\* clause replies and returns, or the exception leaves roll
Fails(t, l, e) ==
    /\ inv' = [inv EXCEPT ![t] =
                  [l EXCEPT !.pc = IF e \in Caught THEN "done" ELSE "escaped", !.err = e]]
    /\ replies' = IF e \in Caught
                  THEN Append(replies, Reply(t, "bad", BadPattern, BadPattern, <<>>))
                  ELSE replies
    /\ running' = {}

\* randomize returns val to replacer
Returns(l, val) ==
    [l EXCEPT !.pc = "expand",
              !.calls = Append(@, [number |-> l.number, size |-> l.size,
                                   out |-> "return", val |-> val]),
              !.number = 0, !.size = IntSize(0), !.result = 0, !.individual = NoList,
              !.left = 0, !.odd = FALSE]

Raised(l) ==
    [l EXCEPT !.calls = Append(@, [number |-> l.number, size |-> l.size,
                                   out |-> "raise", val |-> 0]),
              !.number = 0, !.size = IntSize(0), !.result = 0, !.individual = NoList,
              !.left = 0, !.odd = FALSE]

\* the results of the calls of randomize
Results(l) == [i \in 1..Len(l.calls) |-> l.calls[i].val]

\* a length check that is off by one
TooLong_Off(text) == Len(text) > PATTERN_MAX + 1

\* len(pattern) > 64
TooLong(text) == Len(text) > PATTERN_MAX

(***************************************************************************)
(* roll(evt, pattern), lines 202-210.                                      *)
(***************************************************************************)
RollStart(t) ==
    /\ inv[t].pc = "new"
    /\ CanRun(t)
    /\ UNCHANGED <<config, version>>
    /\ LET l == inv[t]
           text == PatternText(l.pattern)
       IN IF text = <<>>
          THEN \E r \in 1..6 :
                  /\ inv' = [inv EXCEPT ![t] = [l EXCEPT !.pc = "done", !.drew = TRUE]]
                  /\ replies' = Append(replies,
                                       Reply(t, "default", StrInt(r), StrInt(r), <<>>))
                  /\ running' = {}
          ELSE IF TooLong(text)
          THEN /\ inv' = [inv EXCEPT ![t] = [l EXCEPT !.pc = "done"]]
               /\ replies' = Append(replies, Reply(t, "bad", BadPattern, BadPattern, <<>>))
               /\ running' = {}
          ELSE /\ inv' = [inv EXCEPT ![t] =
                             [Read(l) EXCEPT !.pc = "expand",
                                             !.individual_rolls = List(config.show_rolls)]]
               /\ replies' = replies
               /\ running' = {t}

(***************************************************************************)
(* replacer(match) and randomize up to its loops, lines 212-230, 247-248,  *)
(* 253-261.                                                                *)
(***************************************************************************)
Replacer(t) ==
    /\ inv[t].pc = "expand"
    /\ CanRun(t)
    /\ Len(inv[t].calls) < Len(DiceOf(inv[t].pattern.body))
    /\ UNCHANGED <<config, version>>
    /\ LET match == DiceOf(inv[t].pattern.body)[Len(inv[t].calls) + 1]
           number == IF match.counted THEN match.number ELSE 1
           size == match.size
           l == [inv[t] EXCEPT !.number = number, !.size = size]
           entry == randomize_entry(number, size)
       IN CASE entry.out = "raise" -> Fails(t, Raised(l), "ValueError")
            [] entry.out = "return" ->
                  /\ inv' = [inv EXCEPT ![t] = Returns(l, entry.val)]
                  /\ running' = {t}
                  /\ replies' = replies
            [] entry.out = "loop" ->
                  /\ inv' = [inv EXCEPT ![t] =
                        IF number < config.gauss_limit
                        THEN [Read(l) EXCEPT
                                !.pc = "exact", !.left = number,
                                !.individual = List(config.show_rolls
                                                    /\ number < config.show_rolls_limit)]
                        ELSE [Read(l) EXCEPT !.pc = "gauss"]]
                  /\ running' = {t}
                  /\ replies' = replies

(***************************************************************************)
(* The loop for _ in range(number), lines 231-235: one iteration.          *)
(***************************************************************************)
ExactDraw(t, roll) ==
    /\ inv[t].pc = "exact"
    /\ CanRun(t)
    /\ inv[t].left > 0
    /\ roll \in inv[t].size.lo .. inv[t].size.hi
    /\ inv' = [inv EXCEPT ![t].left = @ - 1,
                          ![t].drew = TRUE,
                          ![t].result = @ + roll,
                          ![t].individual.items =
                              IF inv[t].individual.on THEN Append(@, roll) ELSE @]
    /\ running' = {t}
    /\ UNCHANGED <<config, version, replies>>

(***************************************************************************)
(* After the loop, lines 236-245 and 251.                                  *)
(***************************************************************************)
ExactDone(t) ==
    /\ inv[t].pc = "exact"
    /\ CanRun(t)
    /\ inv[t].left = 0
    /\ LET l == inv[t]
           rec == [by |-> t, rec |-> RollRecord(l.number, l.size, l.individual.items)]
           l2 == IF l.individual.on /\ l.individual.items # <<>> /\ l.individual_rolls.on
                 THEN [l EXCEPT !.individual_rolls.items = Append(@, rec)]
                 ELSE l
       IN inv' = [inv EXCEPT ![t] = Returns(l2, l.result)]
    /\ running' = {t}
    /\ UNCHANGED <<config, version, replies>>

(***************************************************************************)
(* The loop while _result < number or _result > number * largest, lines    *)
(* 249-250: one iteration.  The draw is int(mean) when the variance is 0   *)
(* and int(mean) + off otherwise; math.sqrt raises on a negative variance. *)
(***************************************************************************)
GaussDraw(t, off) ==
    /\ inv[t].pc = "gauss"
    /\ CanRun(t)
    /\ GaussAgain(inv[t].result, inv[t].number, inv[t].size.hi)
    /\ UNCHANGED <<config, version>>
    /\ LET l == inv[t]
           sign == VarianceSign(l.number, l.size.hi)
           mean == TruncMean(l.number, l.size.hi)
       IN IF sign < 0
          THEN Fails(t, Raised(l), "ValueError")
          ELSE /\ inv' = [inv EXCEPT ![t].drew = TRUE,
                                     ![t].odd = ~@,
                                     ![t].result = IF sign = 0 THEN mean ELSE mean + off]
               /\ running' = {t}
               /\ replies' = replies

GaussDone(t) ==
    /\ inv[t].pc = "gauss"
    /\ CanRun(t)
    /\ ~GaussAgain(inv[t].result, inv[t].number, inv[t].size.hi)
    /\ inv' = [inv EXCEPT ![t] = Returns(inv[t], inv[t].result)]
    /\ running' = {t}
    /\ UNCHANGED <<config, version, replies>>

(***************************************************************************)
(* The rest of roll once the substitution is done, lines 264-281.          *)
(***************************************************************************)
\* round(result, round_decimals) of an int or None
Round(v) == IF v.k = "none" THEN [err |-> "TypeError", val |-> NoneV]
            ELSE [err |-> "", val |-> v]

\* a length check that is off by one
ResultTooLong_Lax(result, max) == Len(result) > max + 1

\* len(result) > self.result_max_length
ResultTooLong(result, max) == Len(result) > max

Evaluate(t) ==
    /\ inv[t].pc = "expand"
    /\ CanRun(t)
    /\ Len(inv[t].calls) = Len(DiceOf(inv[t].pattern.body))
    /\ UNCHANGED <<config, version>>
    /\ LET pattern == Expanded(inv[t].pattern, Results(inv[t]))
           r == evaluate(pattern)
           l == [Read(inv[t]) EXCEPT !.evaluated = TRUE, !.applied = r.applied,
                                     !.value = r.val]
           rounded == IF config.round_decimals >= 0 THEN Round(r.val)
                      ELSE [err |-> "", val |-> r.val]
           result == Str(rounded.val)
           recs == [i \in 1..Len(l.individual_rolls.items) |->
                       l.individual_rolls.items[i].rec]
       IN IF r.err # "" THEN Fails(t, l, r.err)
          ELSE IF rounded.err # "" THEN Fails(t, l, rounded.err)
          ELSE IF ResultTooLong(result, config.result_max_length)
          THEN Fails(t, l, "ValueError")
          ELSE /\ inv' = [inv EXCEPT ![t] = [l EXCEPT !.pc = "done"]]
               /\ replies' = Append(replies,
                     Reply(t, "result",
                           Formatted(result, PatternText(pattern), recs,
                                     config.show_statement),
                           result, l.individual_rolls.items))
               /\ running' = {}

(***************************************************************************)
(* on_external_config_update, lines 183-190: the host has loaded c.        *)
(***************************************************************************)
ConfigUpdate(c) ==
    /\ LoopIdle
    /\ version < MaxReloads
    /\ config' = c
    /\ version' = version + 1
    /\ UNCHANGED <<running, inv, replies>>

(***************************************************************************)
(* Inputs.                                                                 *)
(***************************************************************************)
Pattern(ok, body, extra) == [ok |-> ok, body |-> body, extra |-> extra]

\* extra characters that bring the text of body to n characters
PadTo(body, n) == n - Len(PatternText(Pattern(TRUE, body, 0)))

\* --- the roll generator alone: one token, every kind the grammar accepts ---
RandSizes ==
    {IntSize(n) : n \in 0..MaxSize}
    \cup {RangeSize(lo, hi) : lo \in -MaxDigit..MaxDigit, hi \in -MaxDigit..MaxDigit}

RandTokens ==
    {Dice(TRUE, n, sz) : n \in 0..MaxNumber, sz \in RandSizes}
    \cup {Dice(FALSE, 1, sz) : sz \in RandSizes}

RandConfigs ==
    {Config(sr, FALSE, 2, g, 512, 2) : sr \in BOOLEAN, g \in {2, MaxNumber + 1}}

RandInit ==
    /\ config \in RandConfigs
    /\ version = 0
    /\ running = {}
    /\ replies = <<>>
    /\ inv \in [{1} -> {Invocation(Pattern(TRUE, <<Expr(d)>>, 0)) : d \in RandTokens}]

\* --- the calculator alone: patterns without dice tokens ---
CalcLits == {0, 1, 2, 3, 1001, 2000000000}

CalcAtoms == {Num(n) : n \in CalcLits} \cup {Name("x")}

CalcOperands ==
    CalcAtoms
    \cup {UnaryOp(op, Num(n)) : op \in {"USub", "Invert", "UAdd", "Not"},
                                n \in {0, 2, 1001}}

\* true division by a non-zero literal and a negative exponent give a float
FloatValued(op, l, r) ==
    \/ op = "Div" /\ r # Num(0)
    \/ op = "Pow" /\ r.type = "UnaryOp" /\ r.op \in {"USub", "Invert"}

CalcBinOps ==
    {BinOp(c[1], c[2], c[3]) :
        c \in {c \in (BinOps \cup {"MatMult"}) \X CalcOperands \X CalcOperands :
                  ~FloatValued(c[1], c[2], c[3])}}

CalcArgs == {Num(1), Num(3), Num(1001), UnaryOp("USub", Num(3)), Name("x")}

CalcArgLists ==
    {<<>>, <<StrLit("a")>>, <<StrLit("ab")>>,
     <<Num(1), Num(1), Num(1), Num(1), Num(1)>>,
     <<Num(1), Num(1), Num(1), Num(1), Num(1), Num(1)>>}
    \cup {<<a>> : a \in CalcArgs}
    \cup {<<a, b>> : a \in CalcArgs, b \in CalcArgs}

CalcKeywords == {<<>>, <<Num(1)>>, <<Num(1), Num(1), Num(1), Num(1), Num(1)>>}

CalcCalls ==
    {Call(f, args, kws) :
        f \in {Name(id) : id \in {"abs", "max", "min", "int", "gcd", "factorial",
                                  "ord", "foo"}} \cup {Num(1)},
        args \in CalcArgLists, kws \in CalcKeywords}

CalcExprs == CalcOperands \cup CalcBinOps \cup CalcCalls

CalcSmall == {Num(1), BinOp("Add", Num(1), Num(2)), BinOp("FloorDiv", Num(1), Num(0)),
              Call(Name("abs"), <<UnaryOp("USub", Num(3))>>, <<>>)}

CalcPatterns ==
    {Pattern(TRUE, <<Expr(e)>>, 0) : e \in CalcExprs}
    \cup {Pattern(TRUE, <<Assign(Name("x"), e)>>, 0) : e \in CalcSmall}
    \cup {Pattern(TRUE, <<Expr(a), Expr(b)>>, 0) : a \in CalcSmall, b \in CalcSmall}
    \cup {Pattern(TRUE, <<Expr(a), Assign(Name("x"), b)>>, 0) : a \in CalcSmall,
                                                                b \in CalcSmall}
    \cup {Pattern(FALSE, <<Expr(a)>>, 1) : a \in CalcSmall}
    \cup {Pattern(TRUE, <<>>, 1)}

CalcConfigs == {Config(FALSE, st, 20, 100, 512, rd) : st \in BOOLEAN, rd \in {-1, 2}}

CalcInit ==
    /\ config \in CalcConfigs
    /\ version = 0
    /\ running = {}
    /\ replies = <<>>
    /\ inv \in [{1} -> {Invocation(p) : p \in CalcPatterns}]

\* --- the whole of roll: patterns with dice, operators, errors of every kind ---
RollDice ==
    {Dice(TRUE, 2, IntSize(2)), Dice(FALSE, 1, IntSize(3)), Dice(TRUE, 0, IntSize(0)),
     Dice(TRUE, 3, RangeSize(2, 3)), Dice(TRUE, 1, RangeSize(-2, -1))}

RollExprs ==
    RollDice
    \cup {Num(7), Num(12345), Num(2000000000), Name("x")}
    \cup {BinOp("Add", d, Num(1)) : d \in RollDice}
    \cup {BinOp("Mult", Dice(TRUE, 2, IntSize(2)), Dice(FALSE, 1, IntSize(3))),
          BinOp("Pow", Dice(TRUE, 1, RangeSize(-2, -1)), Num(2)),
          BinOp("FloorDiv", Num(1), Num(0)),
          BinOp("MatMult", Num(1), Num(2)),
          BinOp("LShift", Num(1), UnaryOp("USub", Num(1))),
          Call(Name("foo"), <<Num(1)>>, <<>>),
          Call(Num(1), <<Num(2)>>, <<>>),
          Call(Name("max"), <<Num(1), Num(1), Num(1), Num(1), Num(1), Num(1)>>, <<>>),
          Call(Name("max"), <<Num(1), Num(12345)>>, <<>>)}

RollBodies ==
    {<<Expr(e)>> : e \in RollExprs}
    \cup {<<>>,
          <<Expr(Num(1)), Expr(Dice(TRUE, 2, IntSize(2)))>>,
          <<Assign(Name("x"), Num(1))>>}

RollPatterns ==
    {Pattern(TRUE, b, x) : b \in RollBodies, x \in {0, 1}}
    \cup {Pattern(TRUE, b, PadTo(b, n)) : b \in RollBodies,
                                          n \in {PATTERN_MAX, PATTERN_MAX + 1}}
    \cup {Pattern(FALSE, <<Expr(e)>>, 1) : e \in {Num(7), Dice(TRUE, 2, IntSize(2))}}

RollConfigs ==
    {Config(sr, st, 3, 3, max, rd) : sr \in BOOLEAN, st \in BOOLEAN, max \in {1, 4, 512},
                                     rd \in {-1, 2}}

Init ==
    /\ config \in RollConfigs
    /\ version = 0
    /\ running = {}
    /\ replies = <<>>
    /\ inv \in [{1} -> {Invocation(p) : p \in RollPatterns}]

\* --- two invocations and configuration reloads ---
ConcPatterns ==
    {Pattern(TRUE, <<Expr(BinOp("Add", Dice(TRUE, 2, IntSize(2)), Dice(FALSE, 1, IntSize(2))))>>, 0),
     Pattern(TRUE, <<Expr(Dice(TRUE, 2, IntSize(2)))>>, 0)}

ConcConfigs == {Config(sr, st, 3, g, 512, 2) : sr \in BOOLEAN, st \in BOOLEAN, g \in {2, 3}}

ConcInit ==
    /\ config \in ConcConfigs
    /\ version = 0
    /\ running = {}
    /\ replies = <<>>
    /\ inv \in [{1, 2} -> {Invocation(p) : p \in ConcPatterns}]

(***************************************************************************)
(* Specifications.                                                         *)
(***************************************************************************)
Offsets == -GaussSpread..GaussSpread

NextRoll ==
    \/ \E t \in Tasks : RollStart(t)
    \/ \E t \in Tasks : Replacer(t)
    \/ \E t \in Tasks : \E roll \in inv[t].size.lo .. inv[t].size.hi : ExactDraw(t, roll)
    \/ \E t \in Tasks : ExactDone(t)
    \/ \E t \in Tasks : \E off \in Offsets : GaussDraw(t, off)
    \/ \E t \in Tasks : GaussDone(t)
    \/ \E t \in Tasks : Evaluate(t)

NextCalc ==
    \/ \E t \in Tasks : RollStart(t)
    \/ \E t \in Tasks : Evaluate(t)

\* the roll generator on every token of the grammar
SpecRand == RandInit /\ [][NextRoll]_vars

\* the same, with every step that can be taken eventually taken and every value
\* the normal distribution can give eventually drawn
FairRand ==
    /\ SpecRand
    /\ WF_vars(RollStart(1))
    /\ WF_vars(Replacer(1))
    /\ WF_vars(\E roll \in inv[1].size.lo .. inv[1].size.hi : ExactDraw(1, roll))
    /\ WF_vars(ExactDone(1))
    /\ \A off \in Offsets : SF_vars(GaussDraw(1, off))
    /\ WF_vars(GaussDone(1))
    /\ WF_vars(Evaluate(1))

\* the calculator on patterns without dice
SpecCalc == CalcInit /\ [][NextCalc]_vars

\* one invocation of roll
Spec == Init /\ [][NextRoll]_vars

NextConc ==
    \/ NextRoll
    \/ \E c \in ConcConfigs : ConfigUpdate(c)

\* two invocations of roll and reloads of the configuration, in any order the
\* event loop allows
SpecConc == ConcInit /\ [][NextConc]_vars

(***************************************************************************)
(* Claims about the roll generator.                                        *)
(***************************************************************************)
\* the finished calls of randomize, over all invocations
Calls == UNION {{inv[t].calls[i] : i \in 1..Len(inv[t].calls)} : t \in Tasks}

\* C1: randomize(count, (low, high)) with count >= 0 and 1 <= low <= high returns
\* a value in [count * low, count * high], below and at or above gauss_limit.
C1_ResultInRange ==
    \A c \in Calls :
        (c.out = "return" /\ c.number >= 0 /\ 1 <= c.size.lo /\ c.size.lo <= c.size.hi)
        => (c.number * c.size.lo <= c.val /\ c.val <= c.number * c.size.hi)

\* C2: every invocation of roll eventually ends, by a reply or by an exception,
\* whatever dice token it holds, when every possible draw is eventually drawn.
C2_RollEnds == <>(\A t \in Tasks : inv[t].pc \in {"done", "escaped"})

\* C6: randomize(0, r) returns 0 for every plain side count and every range
\* {low,high} with low <= high that the expander passes, and randomize(n, (1, 1))
\* returns n, for the plain size 1 and for the range {1,1}.  (A range with
\* low > high is left out: lines 217-220 raise on it by design.)
C6_ZeroAndOne ==
    \A c \in Calls :
        /\ (c.number = 0 /\ (c.size.is_int \/ c.size.lo <= c.size.hi))
           => (c.out = "return" /\ c.val = 0)
        /\ (c.size.lo = 1 /\ c.size.hi = 1) => (c.out = "return" /\ c.val = c.number)

(***************************************************************************)
(* Claims about roll.                                                      *)
(***************************************************************************)
\* the replies of invocation t
RepliesOf(t) == SelectSeq(replies, LAMBDA r : r.task = t)

\* C3: when an invocation on a non-empty pattern of at most 64 characters ends
\* with an exception, whatever its kind, roll has sent exactly one reply, the
\* bad-pattern message; no exception leaves roll without a reply.
C3_EveryErrorCaught ==
    \A t \in Tasks :
        LET n == Len(PatternText(inv[t].pattern))
        IN (0 < n /\ n <= PATTERN_MAX /\ inv[t].err # "")
           => /\ inv[t].pc = "done"
              /\ Len(RepliesOf(t)) = 1
              /\ RepliesOf(t)[1].text = BadPattern

\* C4 as stated: the text of every reply that carries a result, with its
\* statement prefix and its roll breakdown, is at most result_max_length long.
C4_ReplyCapped ==
    \A i \in 1..Len(replies) :
        replies[i].kind = "result" => Len(replies[i].text) <= config.result_max_length

\* C4 as amended: in every reply that follows a successful evaluation, the text
\* of the rounded result is at most result_max_length long.
C4_ResultCapped ==
    \A i \in 1..Len(replies) :
        replies[i].kind = "result" => Len(replies[i].result) <= config.result_max_length

\* a reply whose result is within the limit and whose text, with the statement
\* or the rolls, is beyond it
C4_Witness ==
    \E i \in 1..Len(replies) :
        /\ replies[i].kind = "result"
        /\ Len(replies[i].result) <= config.result_max_length
        /\ Len(replies[i].text) > config.result_max_length

\* C5: for a pattern longer than 64 characters roll replies the bad-pattern
\* message and returns: no dice token is replaced, nothing is drawn, nothing is
\* parsed or evaluated and no roll record is made.
C5_LongPatternRejected ==
    \A t \in Tasks :
        (Len(PatternText(inv[t].pattern)) > PATTERN_MAX /\ inv[t].pc # "new")
        => /\ inv[t].pc = "done"
           /\ Len(RepliesOf(t)) = 1
           /\ RepliesOf(t)[1].text = BadPattern
           /\ inv[t].calls = <<>>
           /\ ~inv[t].drew
           /\ ~inv[t].evaluated
           /\ inv[t].individual_rolls.items = <<>>

\* a pattern of 65 characters that holds a dice token was answered
C5_Witness ==
    \E t \in Tasks :
        /\ Len(PatternText(inv[t].pattern)) = PATTERN_MAX + 1
        /\ DiceOf(inv[t].pattern.body) # <<>>
        /\ inv[t].pc = "done"

(***************************************************************************)
(* Claims about the calculator.                                            *)
(***************************************************************************)
\* the operators and functions that the evaluations applied
Applied == UNION {{inv[t].applied[i] : i \in 1..Len(inv[t].applied)} : t \in Tasks}

\* C7: an operator with an entry in _OP_LIMITS is applied only to operands whose
\* magnitudes are within its left and right maxima, negative operands included.
C7_OperandsWithinLimits ==
    \A e \in Applied :
        (e.kind = "op" /\ e.name \in DOMAIN _OP_LIMITS)
        => /\ Abs(e.args[1].n) <= _OP_LIMITS[e.name][1]
           /\ Abs(e.args[2].n) <= _OP_LIMITS[e.name][2]

\* C8: text that parses to more than a single expression (several statements,
\* an assignment) yields the bad-pattern reply; no part of it is evaluated and
\* sent as a result.
C8_OnlySingleExpression ==
    \A t \in Tasks :
        LET p == inv[t].pattern
        IN (/\ inv[t].pc = "done"
            /\ inv[t].evaluated
            /\ p.ok
            /\ p.body # <<>>
            /\ ~(Len(p.body) = 1 /\ p.body[1].type = "Expr"))
           => \A i \in 1..Len(RepliesOf(t)) : RepliesOf(t)[i].text = BadPattern

\* C9: a function is applied only when its name is in the whitelist (_FUNC_MAP,
\* or ord on a single string), positional plus keyword arguments are at most 5
\* and, if the name has an entry in _FUNC_LIMITS, no argument is over it.
C9_CallsGuarded ==
    \A e \in Applied :
        e.kind = "func"
        => /\ e.name \in _FUNC_MAP \cup {"ord"}
           /\ e.npos + e.nkw <= _ARG_COUNT_LIMIT
           /\ e.name \in DOMAIN _FUNC_LIMITS
              => \A i \in 1..Len(e.args) : e.args[i].n <= _FUNC_LIMITS[e.name]

(***************************************************************************)
(* Claims about concurrent invocations.                                    *)
(***************************************************************************)
\* C10: each invocation reads the configuration fields from one single
\* configuration, from its first read to its reply, and the roll records in a
\* reply are those the same invocation made.
C10_OneSnapshot ==
    /\ \A t \in Tasks : Cardinality(inv[t].seen) <= 1
    /\ \A i \in 1..Len(replies) :
          \A j \in 1..Len(replies[i].recs) : replies[i].recs[j].by = replies[i].task

\* two invocations have replied with roll records, each under another
\* configuration
C10_Witness ==
    /\ Len(replies) = 2
    /\ replies[1].task # replies[2].task
    /\ replies[1].recs # <<>>
    /\ replies[2].recs # <<>>
    /\ inv[1].seen # inv[2].seen
    /\ inv[1].seen # {}
    /\ inv[2].seen # {}

====
